---- MODULE Spec2Model ----
(***************************************************************************)
(* Model of create_presentation.py: the deck builder of the tissue QA     *)
(* dashboard.  The document is the sequence of slides of `prs`, each a     *)
(* record of layout, title and body paragraphs; the builders are stepped   *)
(* one statement group (or one loop iteration) at a time.                  *)
(*                                                                         *)
(* A text is a sequence of chunks: every leading whitespace character      *)
(* ("\n" or " ") is a chunk of its own and the remainder of the string is  *)
(* one opaque chunk, so that str.startswith on the prefixes the code tests *)
(* is computed rather than assumed.  Non-ASCII characters of the literals  *)
(* are transliterated (U+2022 as [bullet], superscript 2 as 2, mu as u).   *)
(***************************************************************************)
EXTENDS Integers, Sequences, FiniteSets, TLC

\* The number of times the script is run in succession.
MaxRuns == 2

VARIABLES
  pc,            \* the statement of create_presentation about to execute
  ip,            \* position inside the running slide builder ("enter": not inside one)
  k,             \* index of the next element of the list the builder iterates
  slides,        \* prs.slides
  slide_width,   \* prs.slide_width  (EMU; 0 before Presentation())
  slide_height,  \* prs.slide_height (EMU; 0 before Presentation())
  fs,            \* the working directory: path -> file content
  stdout,        \* lines printed by this run
  returned,      \* value returned by create_presentation (<<>>: nothing yet)
  created,       \* Presentation() calls of this run
  saves,         \* prs.save calls of this run
  run,           \* ordinal of the current run of the script
  history        \* the contents the successful saves wrote, oldest first

vars == <<pc, ip, k, slides, slide_width, slide_height, fs, stdout, returned,
          created, saves, run, history>>

(***************************************************************************)
(* Library values (python-pptx)                                            *)
(***************************************************************************)
\* font.size of a paragraph nobody sized: None, the size is inherited
NoSize == 0

\* pptx.util.Pt: points to EMU
Pt(n) == n * 12700

\* pptx.util.Inches on a value given in thousandths: int(inches * 914400)
Inches(milli) == (milli * 9144) \div 10

\* str.startswith
startswith(s, prefix) ==
  /\ Len(s) >= Len(prefix)
  /\ SubSeq(s, 1, Len(prefix)) = prefix

\* f"[bullet] {x}": the bullet character U+2022 is written [bullet]
Bullet(x) == <<"[bullet] ">> \o x

\* text_frame.add_paragraph(): a paragraph with no text and default formatting
NewParagraph == [text |-> <<>>, level |-> 0, bold |-> FALSE, size |-> NoSize]

\* Index of the first "\n" chunk of a text at or after position i (Len+1 if none)
RECURSIVE FindNL(_, _)
FindNL(s, i) ==
  IF i > Len(s) THEN i
  ELSE IF s[i] = "\n" THEN i
  ELSE FindNL(s, i + 1)

\* text_frame.text = s: one paragraph per line of s
RECURSIVE TextFrameSetText(_)
TextFrameSetText(s) ==
  LET n == FindNL(s, 1)
  IN  IF n > Len(s) THEN << [NewParagraph EXCEPT !.text = s] >>
      ELSE << [NewParagraph EXCEPT !.text = SubSeq(s, 1, n - 1)] >>
           \o TextFrameSetText(SubSeq(s, n + 1, Len(s)))

\* Faulty variant of add_slide: the new slide is inserted first, not appended
add_slide_first(layout) ==
  <<[layout |-> layout, title |-> <<>>, title_size |-> NoSize,
     title_bold |-> FALSE, body |-> <<>>]>> \o slides

\* prs.slides.add_slide(prs.slide_layouts[layout]): a slide with empty placeholders
add_slide(layout) ==
  Append(slides, [layout |-> layout, title |-> <<>>, title_size |-> NoSize,
                  title_bold |-> FALSE, body |-> <<>>])

\* The slide under construction
cur == slides[Len(slides)]

\* Replace the slide under construction
WithCur(s) == [slides EXCEPT ![Len(slides)] = s]

\* tf.add_paragraph() followed by the assignments that produced p
WithParagraph(p) == WithCur([cur EXCEPT !.body = Append(@, p)])

\* create_presentation's locals and the world are untouched by a builder
Frame == UNCHANGED <<slide_width, slide_height, fs, stdout, returned,
                     created, saves, run, history>>

\* Faulty variant of calls: two of the calls exchanged
calls_swapped ==
  <<"add_title_slide", "add_overview_slide", "add_key_features_slide",
    "add_machine_parameters_slide", "add_metrics_monitored_slide",
    "add_trend_analysis_slide", "add_advanced_analytics_slide",
    "add_insights_slide1", "add_insights_slide2",
    "add_technical_features_slide", "add_future_enhancements_slide",
    "add_conclusion_slide">>

\* The calls of create_presentation, in order
calls == <<"add_title_slide", "add_overview_slide", "add_key_features_slide",
           "add_metrics_monitored_slide", "add_machine_parameters_slide",
           "add_trend_analysis_slide", "add_advanced_analytics_slide",
           "add_insights_slide1", "add_insights_slide2",
           "add_technical_features_slide", "add_future_enhancements_slide",
           "add_conclusion_slide">>

\* Faulty variant of NextCall: the save is reached one call early
NextCall_early_save(name) ==
  LET i == CHOOSE j \in 1..Len(calls) : calls[j] = name
  IN  IF i < Len(calls) - 1 THEN calls[i + 1] ELSE "save"

\* The statement of create_presentation that follows the call of `name`
NextCall(name) ==
  LET i == CHOOSE j \in 1..Len(calls) : calls[j] = name
  IN  IF i < Len(calls) THEN calls[i + 1] ELSE "save"

\* A straight-line statement group of a builder
Step(from, to, newslides) ==
  /\ ip = from
  /\ slides' = newslides
  /\ ip' = to
  /\ UNCHANGED <<pc, k>>

\* One iteration of `for x in list:` with x = list[k], whose body appends the
\* paragraph p
Loop(at, list, p) ==
  /\ ip = at
  /\ k <= Len(list)
  /\ slides' = WithParagraph(p)
  /\ k' = k + 1
  /\ UNCHANGED <<pc, ip>>

\* The list is exhausted: fall through to the statement after the loop
LoopEnd(at, list, to) ==
  /\ ip = at
  /\ k > Len(list)
  /\ ip' = to
  /\ k' = 1
  /\ UNCHANGED <<pc, slides>>

\* return slide: control is back in create_presentation at the next statement
Return(name) ==
  /\ ip = "return"
  /\ pc' = NextCall(name)
  /\ ip' = "enter"
  /\ UNCHANGED <<k, slides>>

\* slide = prs.slides.add_slide(prs.slide_layouts[layout])
Enter(layout) == Step("enter", "title", add_slide(layout))

\* title.text = t
Title(t) == Step("title", "text", WithCur([cur EXCEPT !.title = t]))

\* tf.text = seed; tf.paragraphs[0].font.bold = True
BoldSeed(seed) == [TextFrameSetText(seed) EXCEPT ![1].bold = TRUE]

(***************************************************************************)
(* The slide builders                                                      *)
(***************************************************************************)
add_title_slide ==
  /\ pc = "add_title_slide"
  /\ Frame
  /\ \/ Enter(0)
     \/ Step("title", "text",
             WithCur([cur EXCEPT !.title = <<"Tissue Manufacturing QA Dashboard">>,
                !.body = TextFrameSetText(
                   <<"Comprehensive Quality Analytics & Monitoring System", "\n",
                     "Real-time Process Control & Performance Insights">>)]))
     \/ Step("text", "return",
             WithCur([cur EXCEPT !.title_size = Pt(44), !.title_bold = TRUE]))
     \/ Return("add_title_slide")

overview_points == <<
  <<"Real-time quality monitoring across all production parameters">>,
  <<"Advanced analytics with daily averaging for stable insights">>,
  <<"Multi-dimensional filtering and data exploration">>,
  <<"Automated PDF report generation">>,
  <<"Process capability analysis (Cpk)">>,
  <<"Trend analysis with statistical control limits">>,
  <<"Shift performance comparison">>,
  <<"Correlation analysis between parameters">> >>

overview_paragraph(point) ==
  [NewParagraph EXCEPT !.text = point, !.level = 1, !.size = Pt(18)]

add_overview_slide ==
  /\ pc = "add_overview_slide"
  /\ Frame
  /\ \/ Enter(1)
     \/ Title(<<"Dashboard Overview">>)
     \/ Step("text", "points", WithCur([cur EXCEPT
             !.body = TextFrameSetText(<<"Complete Quality Management Solution">>)]))
     \/ Loop("points", overview_points, overview_paragraph(overview_points[k]))
     \/ LoopEnd("points", overview_points, "return")
     \/ Return("add_overview_slide")

\* The eleven add_paragraph statement groups of add_key_features_slide, in order
key_features_paragraphs == <<
  [NewParagraph EXCEPT !.text = <<"[bullet] Excel file upload with automatic parsing">>,
                       !.level = 1],
  [NewParagraph EXCEPT !.text = <<"[bullet] Intelligent column mapping">>, !.level = 1],
  [NewParagraph EXCEPT !.text = <<"[bullet] Data validation and error handling">>,
                       !.level = 1],
  [NewParagraph EXCEPT !.text = <<"\n", "2. Daily Quality Reports">>, !.bold = TRUE],
  [NewParagraph EXCEPT !.text = <<"[bullet] Comprehensive daily metrics view">>,
                       !.level = 1],
  [NewParagraph EXCEPT !.text = <<"[bullet] Automatic data aggregation">>, !.level = 1],
  [NewParagraph EXCEPT !.text = <<"[bullet] PDF report generation">>, !.level = 1],
  [NewParagraph EXCEPT !.text = <<"\n", "3. Advanced Filtering">>, !.bold = TRUE],
  [NewParagraph EXCEPT !.text = <<"[bullet] Date range selection">>, !.level = 1],
  [NewParagraph EXCEPT !.text = <<"[bullet] Shift, Quality, and GSM grade filters">>,
                       !.level = 1],
  [NewParagraph EXCEPT !.text = <<"[bullet] Multi-criteria filtering">>, !.level = 1] >>

add_key_features_slide ==
  /\ pc = "add_key_features_slide"
  /\ Frame
  /\ \/ Enter(1)
     \/ Title(<<"Key Features">>)
     \/ Step("text", "paragraphs", WithCur([cur EXCEPT
             !.body = BoldSeed(<<"1. Data Upload & Processing">>)]))
     \/ Loop("paragraphs", key_features_paragraphs, key_features_paragraphs[k])
     \/ LoopEnd("paragraphs", key_features_paragraphs, "return")
     \/ Return("add_key_features_slide")

metrics == <<
  <<"GSM (Grammage) - g/m2">>,
  <<"Thickness - um">>,
  <<"Bulk - cc/g">>,
  <<"Tensile Strength MD/CD - N/m">>,
  <<"MD/CD Ratio">>,
  <<"Brightness ISO - %">>,
  <<"Opacity - %">>,
  <<"Moisture Content - %">>,
  <<"Stretch/Elongation - %">>,
  <<"Wet Tensile - gf/50mm">>,
  <<"Wet/Dry Tensile Ratio - %">> >>

\* Faulty variant of metrics_paragraph: the overview slide's 18pt
metrics_paragraph_18pt(metric) ==
  [NewParagraph EXCEPT !.text = Bullet(metric), !.level = 1, !.size = Pt(18)]

metrics_paragraph(metric) ==
  [NewParagraph EXCEPT !.text = Bullet(metric), !.level = 1, !.size = Pt(16)]

add_metrics_monitored_slide ==
  /\ pc = "add_metrics_monitored_slide"
  /\ Frame
  /\ \/ Enter(1)
     \/ Title(<<"Quality Metrics Monitored">>)
     \/ Step("text", "metrics", WithCur([cur EXCEPT
             !.body = BoldSeed(<<"Core Quality Parameters">>)]))
     \/ Loop("metrics", metrics, metrics_paragraph(metrics[k]))
     \/ LoopEnd("metrics", metrics, "return")
     \/ Return("add_metrics_monitored_slide")

params == <<
  <<"Machine Speed (Mpm)">>,
  <<"Pope Reel Speed (Mpm)">>,
  <<"MC Draw">>,
  <<"Press Load">>,
  <<"Coating Parameters">>,
  <<"Machine Creep %">> >>

fiber_params == <<
  <<"Short Fiber %">>,
  <<"Long Fiber %">>,
  <<"Broke %">>,
  <<"HW/SW Consistency">>,
  <<"HW SR / SW OSR">>,
  <<"WSR/DSR (Kg/Hr)">> >>

machine_paragraph(param) ==
  [NewParagraph EXCEPT !.text = Bullet(param), !.level = 1]

add_machine_parameters_slide ==
  /\ pc = "add_machine_parameters_slide"
  /\ Frame
  /\ \/ Enter(1)
     \/ Title(<<"Machine Parameters & Fiber Composition">>)
     \/ Step("text", "params", WithCur([cur EXCEPT
             !.body = BoldSeed(<<"Machine Parameters">>)]))
     \/ Loop("params", params, machine_paragraph(params[k]))
     \/ LoopEnd("params", params, "header")
     \/ Step("header", "fiber_params", WithParagraph([NewParagraph EXCEPT
             !.text = <<"\n", "Fiber Composition & Consumption">>, !.bold = TRUE]))
     \/ Loop("fiber_params", fiber_params, machine_paragraph(fiber_params[k]))
     \/ LoopEnd("fiber_params", fiber_params, "return")
     \/ Return("add_machine_parameters_slide")

trend_features == <<
  <<"Multiple time views: Hourly, Daily, Weekly, Monthly">>,
  <<"Multi-metric selection (up to 4 parameters)">>,
  <<"Statistical indicators:">>,
  <<" ", " ", "- Moving averages (customizable period)">>,
  <<" ", " ", "- Control limits (3-sigma)">>,
  <<" ", " ", "- Min/Max/Mean/Median statistics">>,
  <<"Interactive charts with zoom and pan">>,
  <<"Chart export functionality">>,
  <<"CSV data export">>,
  <<"Filter selections shown in exports">> >>

\* Faulty variant of trend_paragraph: sub-bullets left at level 1
trend_paragraph_flat(feature) ==
  [NewParagraph EXCEPT !.text = feature, !.level = 1, !.size = Pt(16)]

trend_paragraph(feature) ==
  [NewParagraph EXCEPT
     !.text = feature,
     !.level = IF ~startswith(feature, <<" ", " ">>) THEN 1 ELSE 2,
     !.size = Pt(16)]

add_trend_analysis_slide ==
  /\ pc = "add_trend_analysis_slide"
  /\ Frame
  /\ \/ Enter(1)
     \/ Title(<<"Trend Analysis Features">>)
     \/ Step("text", "features", WithCur([cur EXCEPT
             !.body = BoldSeed(<<"Advanced Trending Capabilities">>)]))
     \/ Loop("features", trend_features, trend_paragraph(trend_features[k]))
     \/ LoopEnd("features", trend_features, "return")
     \/ Return("add_trend_analysis_slide")

tabs == <<
  <<"\n", "1. Process Performance">>,
  <<" ", " ", "[bullet] Process Capability Index (Cpk) analysis">>,
  <<" ", " ", "[bullet] Multi-parameter performance radar">>,
  <<" ", " ", "[bullet] Quality score trending">>,
  <<" ", " ", "[bullet] Daily averaging for stability">>,
  <<"\n", "2. Statistical Analysis">>,
  <<" ", " ", "[bullet] Process stability monitoring">>,
  <<" ", " ", "[bullet] Distribution analysis">>,
  <<" ", " ", "[bullet] Coefficient of variation">>,
  <<" ", " ", "[bullet] Control charts">>,
  <<"\n", "3. Correlations & Patterns">>,
  <<" ", " ", "[bullet] Parameter correlation matrix">>,
  <<" ", " ", "[bullet] Top quality issues distribution">>,
  <<" ", " ", "[bullet] Pattern recognition">>,
  <<"\n", "4. Shift Performance">>,
  <<" ", " ", "[bullet] Comparative shift analysis">>,
  <<" ", " ", "[bullet] Performance benchmarking">>,
  <<" ", " ", "[bullet] Production volume tracking">> >>

\* Faulty variant of analytics_paragraph: two-space lines pushed to level 2
analytics_paragraph_deep(item) ==
  [NewParagraph EXCEPT
     !.text = item,
     !.level = IF startswith(item, <<"\n">>) THEN 0
               ELSE IF startswith(item, <<" ", " ">>) THEN 2 ELSE 1,
     !.size = Pt(16),
     !.bold = IF startswith(item, <<"\n">>) THEN TRUE ELSE @]

analytics_paragraph(item) ==
  [NewParagraph EXCEPT
     !.text = item,
     !.level = IF startswith(item, <<"\n">>) THEN 0 ELSE 1,
     !.size = Pt(16),
     !.bold = IF startswith(item, <<"\n">>) THEN TRUE ELSE @]

add_advanced_analytics_slide ==
  /\ pc = "add_advanced_analytics_slide"
  /\ Frame
  /\ \/ Enter(1)
     \/ Title(<<"Advanced Analytics Dashboard">>)
     \/ Step("text", "tabs", WithCur([cur EXCEPT
             !.body = BoldSeed(<<"Four Comprehensive Analysis Tabs">>)]))
     \/ Loop("tabs", tabs, analytics_paragraph(tabs[k]))
     \/ LoopEnd("tabs", tabs, "return")
     \/ Return("add_advanced_analytics_slide")

insights1 == <<
  <<"Real-time identification of out-of-spec parameters">>,
  <<"Early warning system for process deviations">>,
  <<"Cpk > 1.33 indicates excellent process capability">>,
  <<"Daily averaging reduces noise in measurements">>,
  <<"\n", "Operational Efficiency">>,
  <<"Shift performance comparison identifies best practices">>,
  <<"Machine parameter tracking optimizes settings">>,
  <<"Correlation analysis reveals parameter relationships">>,
  <<"\n", "Data-Driven Decision Making">>,
  <<"Historical trend analysis for predictive insights">>,
  <<"Statistical control limits for process stability">>,
  <<"Comprehensive reporting for management review">> >>

insights1_paragraph(insight) ==
  [NewParagraph EXCEPT
     !.text = insight,
     !.level = IF startswith(insight, <<"\n">>) THEN 0 ELSE 1,
     !.size = Pt(16),
     !.bold = IF startswith(insight, <<"\n">>) THEN TRUE ELSE @]

add_insights_slide1 ==
  /\ pc = "add_insights_slide1"
  /\ Frame
  /\ \/ Enter(1)
     \/ Title(<<"Key Insights & Benefits">>)
     \/ Step("text", "insights", WithCur([cur EXCEPT
             !.body = BoldSeed(<<"Quality Control Excellence">>)]))
     \/ Loop("insights", insights1, insights1_paragraph(insights1[k]))
     \/ LoopEnd("insights", insights1, "return")
     \/ Return("add_insights_slide1")

insights2 == <<
  <<"Moisture content (exclude 0 values for accuracy)">>,
  <<"MD/CD ratio for sheet strength balance">>,
  <<"Wet/Dry tensile ratio for absorbency">>,
  <<"Process stability through control charts">>,
  <<"\n", "Quality Improvement Opportunities">>,
  <<"Parameters frequently out of spec">>,
  <<"Shift-to-shift variations">>,
  <<"Correlation between defects and parameters">>,
  <<"Machine speed vs quality trade-offs">>,
  <<"\n", "Cost Optimization">>,
  <<"Fiber composition optimization">>,
  <<"Energy consumption (WSR/DSR rates)">>,
  <<"Broke percentage reduction">>,
  <<"Machine efficiency improvements">> >>

insights2_paragraph(insight) ==
  [NewParagraph EXCEPT
     !.text = insight,
     !.level = IF startswith(insight, <<"\n">>) THEN 0 ELSE 1,
     !.size = Pt(16),
     !.bold = IF startswith(insight, <<"\n">>) THEN TRUE ELSE @]

add_insights_slide2 ==
  /\ pc = "add_insights_slide2"
  /\ Frame
  /\ \/ Enter(1)
     \/ Title(<<"Process Optimization Insights">>)
     \/ Step("text", "insights", WithCur([cur EXCEPT
             !.body = BoldSeed(<<"Critical Parameters to Monitor">>)]))
     \/ Loop("insights", insights2, insights2_paragraph(insights2[k]))
     \/ LoopEnd("insights", insights2, "return")
     \/ Return("add_insights_slide2")

technical_features == <<
  <<"React 19 with TypeScript">>,
  <<"Material-UI v7 for modern UI">>,
  <<"Recharts for interactive visualizations">>,
  <<"Day.js for date handling">>,
  <<"XLSX for Excel file parsing">>,
  <<"jsPDF for report generation">>,
  <<"\n", "Data Processing Features">>,
  <<"Automatic column mapping">>,
  <<"Intelligent date parsing">>,
  <<"Data validation and error handling">>,
  <<"Daily averaging algorithms">>,
  <<"Statistical calculations">>,
  <<"\n", "User Experience">>,
  <<"Responsive design for all devices">>,
  <<"Intuitive navigation">>,
  <<"Real-time filtering">>,
  <<"Export capabilities">>,
  <<"Performance optimized">> >>

technical_paragraph(feature) ==
  [NewParagraph EXCEPT
     !.text = feature,
     !.level = IF startswith(feature, <<"\n">>) THEN 0 ELSE 1,
     !.size = Pt(16),
     !.bold = IF startswith(feature, <<"\n">>) THEN TRUE ELSE @]

add_technical_features_slide ==
  /\ pc = "add_technical_features_slide"
  /\ Frame
  /\ \/ Enter(1)
     \/ Title(<<"Technical Implementation">>)
     \/ Step("text", "features", WithCur([cur EXCEPT
             !.body = BoldSeed(<<"Modern Technology Stack">>)]))
     \/ Loop("features", technical_features, technical_paragraph(technical_features[k]))
     \/ LoopEnd("features", technical_features, "return")
     \/ Return("add_technical_features_slide")

enhancements == <<
  <<"Machine Learning Integration">>,
  <<" ", " ", "[bullet] Predictive quality alerts">>,
  <<" ", " ", "[bullet] Anomaly detection">>,
  <<" ", " ", "[bullet] Optimal parameter recommendations">>,
  <<"\n", "Real-time Data Integration">>,
  <<" ", " ", "[bullet] Direct sensor connectivity">>,
  <<" ", " ", "[bullet] Live dashboard updates">>,
  <<" ", " ", "[bullet] Instant notifications">>,
  <<"\n", "Advanced Analytics">>,
  <<" ", " ", "[bullet] Six Sigma calculations">>,
  <<" ", " ", "[bullet] Root cause analysis">>,
  <<" ", " ", "[bullet] Predictive maintenance">>,
  <<"\n", "Integration Capabilities">>,
  <<" ", " ", "[bullet] ERP system integration">>,
  <<" ", " ", "[bullet] Mobile app development">>,
  <<" ", " ", "[bullet] API for third-party access">> >>

\* Faulty variant of future_paragraph: bold decided as in the other builders
future_paragraph_newline_bold(item) ==
  [NewParagraph EXCEPT
     !.text = item,
     !.level = IF ~startswith(item, <<" ", " ">>) THEN 0 ELSE 1,
     !.size = Pt(16),
     !.bold = IF startswith(item, <<"\n">>) THEN TRUE ELSE @]

future_paragraph(item) ==
  [NewParagraph EXCEPT
     !.text = item,
     !.level = IF ~startswith(item, <<" ", " ">>) THEN 0 ELSE 1,
     !.size = Pt(16),
     !.bold = IF ~startswith(item, <<" ", " ">>) /\ ~(item = <<"Potential Additions">>)
              THEN TRUE ELSE @]

add_future_enhancements_slide ==
  /\ pc = "add_future_enhancements_slide"
  /\ Frame
  /\ \/ Enter(1)
     \/ Title(<<"Future Enhancement Opportunities">>)
     \/ Step("text", "enhancements", WithCur([cur EXCEPT
             !.body = BoldSeed(<<"Potential Additions">>)]))
     \/ Loop("enhancements", enhancements, future_paragraph(enhancements[k]))
     \/ LoopEnd("enhancements", enhancements, "return")
     \/ Return("add_future_enhancements_slide")

conclusion_points == <<
  <<"\n", "Key Benefits:">>,
  <<"[bullet] Improved quality control and consistency">>,
  <<"[bullet] Data-driven decision making">>,
  <<"[bullet] Reduced waste and defects">>,
  <<"[bullet] Enhanced operational efficiency">>,
  <<"[bullet] Better compliance and reporting">>,
  <<"\n", "Business Impact:">>,
  <<"[bullet] Faster identification of quality issues">>,
  <<"[bullet] Improved customer satisfaction">>,
  <<"[bullet] Cost reduction through optimization">>,
  <<"[bullet] Competitive advantage through analytics">>,
  <<"\n", "Ready for deployment and continuous improvement">> >>

conclusion_paragraph(point) ==
  [NewParagraph EXCEPT
     !.text = point,
     !.level = IF startswith(point, <<"\n">>) THEN 0 ELSE 1,
     !.size = Pt(18),
     !.bold = IF startswith(point, <<"\n">>) THEN TRUE ELSE @]

\* tf.text = seed; paragraphs[0] bold, 20pt
conclusion_seed ==
  [TextFrameSetText(<<"Comprehensive Quality Management Solution">>)
     EXCEPT ![1].bold = TRUE, ![1].size = Pt(20)]

add_conclusion_slide ==
  /\ pc = "add_conclusion_slide"
  /\ Frame
  /\ \/ Enter(1)
     \/ Title(<<"Conclusion">>)
     \/ Step("text", "points", WithCur([cur EXCEPT
             !.body = conclusion_seed]))
     \/ Loop("points", conclusion_points, conclusion_paragraph(conclusion_points[k]))
     \/ LoopEnd("points", conclusion_points, "return")
     \/ Return("add_conclusion_slide")

(***************************************************************************)
(* create_presentation                                                     *)
(***************************************************************************)
filename == "Tissue_QA_Dashboard_Presentation.pptx"

\* The paths of the working directory the model tracks
Paths == {filename, "other.pptx"}

\* No file at a path
NoFile == [state |-> "absent", slide_width |-> 0, slide_height |-> 0, slides |-> <<>>]

\* What a failed write may leave behind: a file cut short
Truncated == [state |-> "truncated", slide_width |-> 0, slide_height |-> 0,
              slides |-> <<>>]

\* A deck some earlier program left at the output path
OldFile ==
  [state |-> "pptx", slide_width |-> 9144000, slide_height |-> 6858000,
   slides |-> << [layout |-> 0, title |-> <<"Old deck">>, title_size |-> NoSize,
                  title_bold |-> FALSE, body |-> <<>>] >>]

\* The content model prs.save serializes
Package ==
  [state |-> "pptx", slide_width |-> slide_width, slide_height |-> slide_height,
   slides |-> slides]

\* Faulty variant of Presentation: Presentation(filename), which opens the deck
\* already at the output path when there is one
Presentation_opens_existing ==
  /\ pc = "Presentation"
  /\ slides' = fs[filename].slides
  /\ slide_width' = 9144000
  /\ slide_height' = 6858000
  /\ created' = created + 1
  /\ pc' = "slide_width"
  /\ UNCHANGED <<ip, k, fs, stdout, returned, saves, run, history>>

\* prs = Presentation(): a new document from the default template (4:3, no slides)
Presentation ==
  /\ pc = "Presentation"
  /\ slides' = <<>>
  /\ slide_width' = 9144000
  /\ slide_height' = 6858000
  /\ created' = created + 1
  /\ pc' = "slide_width"
  /\ UNCHANGED <<ip, k, fs, stdout, returned, saves, run, history>>

\* prs.slide_width = Inches(13.333)
set_slide_width ==
  /\ pc = "slide_width"
  /\ slide_width' = Inches(13333)
  /\ pc' = "slide_height"
  /\ UNCHANGED <<ip, k, slides, slide_height, fs, stdout, returned, created, saves,
                 run, history>>

\* Faulty variant of set_slide_height: the width is assigned a second time
set_slide_height_as_width ==
  /\ pc = "slide_height"
  /\ slide_width' = Inches(7500)
  /\ pc' = calls[1]
  /\ UNCHANGED <<ip, k, slides, slide_height, fs, stdout, returned, created, saves,
                 run, history>>

\* prs.slide_height = Inches(7.5)
set_slide_height ==
  /\ pc = "slide_height"
  /\ slide_height' = Inches(7500)
  /\ pc' = calls[1]
  /\ UNCHANGED <<ip, k, slides, slide_width, fs, stdout, returned, created, saves,
                 run, history>>

\* prs.save(filename) wrote the file
save_ok ==
  /\ fs' = [fs EXCEPT ![filename] = Package]
  /\ history' = Append(history, Package)
  /\ pc' = "print"

\* Faulty variant of save_raises: the exception is caught and execution goes on
save_swallowed ==
  /\ \E left \in {fs[filename], Truncated} : fs' = [fs EXCEPT ![filename] = left]
  /\ pc' = "print"
  /\ UNCHANGED history

\* prs.save(filename) raised: the exception leaves create_presentation; the
\* path keeps its old content or holds a truncated file
save_raises ==
  /\ \E left \in {fs[filename], Truncated} : fs' = [fs EXCEPT ![filename] = left]
  /\ pc' = "error"
  /\ UNCHANGED history

save ==
  /\ pc = "save"
  /\ saves' = saves + 1
  /\ \/ save_ok
     \/ save_raises
  /\ UNCHANGED <<ip, k, slides, slide_width, slide_height, stdout, returned, created,
                 run>>

\* print(f"Presentation saved as {filename}")
print_saved ==
  /\ pc = "print"
  /\ stdout' = Append(stdout, <<"Presentation saved as ", filename>>)
  /\ pc' = "return"
  /\ UNCHANGED <<ip, k, slides, slide_width, slide_height, fs, returned, created,
                 saves, run, history>>

\* return filename
return_filename ==
  /\ pc = "return"
  /\ returned' = <<filename>>
  /\ pc' = "done"
  /\ UNCHANGED <<ip, k, slides, slide_width, slide_height, fs, stdout, created,
                 saves, run, history>>

\* The script is run again: a new process, the working directory as it was left
main ==
  /\ pc \in {"done", "error"}
  /\ run < MaxRuns
  /\ run' = run + 1
  /\ pc' = "Presentation"
  /\ ip' = "enter"
  /\ k' = 1
  /\ slides' = <<>>
  /\ slide_width' = 0
  /\ slide_height' = 0
  /\ stdout' = <<>>
  /\ returned' = <<>>
  /\ created' = 0
  /\ saves' = 0
  /\ UNCHANGED <<fs, history>>

Init ==
  /\ pc = "Presentation"
  /\ ip = "enter"
  /\ k = 1
  /\ slides = <<>>
  /\ slide_width = 0
  /\ slide_height = 0
  /\ fs \in {[p \in Paths |-> IF p = filename THEN f ELSE NoFile] : f \in {NoFile, OldFile}}
  /\ stdout = <<>>
  /\ returned = <<>>
  /\ created = 0
  /\ saves = 0
  /\ run = 1
  /\ history = <<>>

Next ==
  \/ main
  \/ Presentation
  \/ set_slide_width
  \/ set_slide_height
  \/ add_title_slide
  \/ add_overview_slide
  \/ add_key_features_slide
  \/ add_metrics_monitored_slide
  \/ add_machine_parameters_slide
  \/ add_trend_analysis_slide
  \/ add_advanced_analytics_slide
  \/ add_insights_slide1
  \/ add_insights_slide2
  \/ add_technical_features_slide
  \/ add_future_enhancements_slide
  \/ add_conclusion_slide
  \/ save
  \/ print_saved
  \/ return_filename

Spec == Init /\ [][Next]_vars

(***************************************************************************)
(* Vocabulary of the properties                                            *)
(***************************************************************************)
\* The documented sequence of slide titles
TitleSeq == <<
  <<"Tissue Manufacturing QA Dashboard">>,
  <<"Dashboard Overview">>,
  <<"Key Features">>,
  <<"Quality Metrics Monitored">>,
  <<"Machine Parameters & Fiber Composition">>,
  <<"Trend Analysis Features">>,
  <<"Advanced Analytics Dashboard">>,
  <<"Key Insights & Benefits">>,
  <<"Process Optimization Insights">>,
  <<"Technical Implementation">>,
  <<"Future Enhancement Opportunities">>,
  <<"Conclusion">> >>

titles(sl) == [i \in 1..Len(sl) |-> sl[i].title]

\* Control is in create_presentation, past the save that succeeded
Saved == pc \in {"print", "return", "done"}

\* Control is inside the slide builder named by pc
InBuilder == ip # "enter"

\* The body paragraphs appended after the seeded opening line: <<slide, paragraph>>
\* index pairs of the slides built on the content layout
Appended ==
  {ij \in (1..Len(slides)) \X (2..20) :
     /\ slides[ij[1]].layout = 1
     /\ ij[2] <= Len(slides[ij[1]].body)}

Par(ij) == slides[ij[1]].body[ij[2]]

TitleOf(ij) == slides[ij[1]].title

NL == <<"\n">>

SP2 == <<" ", " ">>

\* Slide i exists and its builder has returned
Built(i) == i < Len(slides) \/ (i = Len(slides) /\ ~InBuilder)

\* The slide titled t, once its builder has returned
BuiltSlides(t) == {i \in 1..Len(slides) : Built(i) /\ slides[i].title = t}

UniformLevel(text) ==
  IF startswith(text, NL) THEN 0
  ELSE IF startswith(text, SP2) THEN 2
  ELSE 1

\* C2 as stated: every appended body paragraph has level 0 if its line starts
\* with a newline, 2 if it starts with two spaces and 1 otherwise, in every
\* builder alike.
C2_UniformLevels ==
  \A ij \in Appended : Par(ij).level = UniformLevel(Par(ij).text)

\* The level each builder gives a line, by the line's prefix
BuilderLevel(title, text) ==
  IF title = <<"Trend Analysis Features">>
    THEN (IF startswith(text, SP2) THEN 2 ELSE 1)
  ELSE IF title = <<"Future Enhancement Opportunities">>
    THEN (IF startswith(text, SP2) THEN 1 ELSE 0)
  ELSE (IF startswith(text, NL) THEN 0 ELSE 1)

\* C2 amended: the level of every appended body paragraph is determined by the
\* line's prefix alone, by a mapping that differs between builders: a
\* newline-led line is level 0 everywhere; a two-space line is level 2 in Trend
\* Analysis Features and level 1 in Advanced Analytics Dashboard and Future
\* Enhancement Opportunities; any other line is level 1, except in Future
\* Enhancement Opportunities, where it is level 0.
C2_BuilderLevels ==
  /\ \A ij \in Appended : Par(ij).level = BuilderLevel(TitleOf(ij), Par(ij).text)
  /\ \A ij \in Appended : startswith(Par(ij).text, NL) => Par(ij).level = 0

C2_Witness ==
  /\ pc = "save"
  /\ \E ij \in Appended :
        /\ TitleOf(ij) = <<"Advanced Analytics Dashboard">>
        /\ startswith(Par(ij).text, SP2)
        /\ Par(ij).level = 1
  /\ \E ij \in Appended :
        /\ TitleOf(ij) = <<"Future Enhancement Opportunities">>
        /\ ~startswith(Par(ij).text, SP2)
        /\ ~startswith(Par(ij).text, NL)
        /\ Par(ij).level = 0
  /\ \E ij \in Appended :
        /\ TitleOf(ij) = <<"Trend Analysis Features">>
        /\ startswith(Par(ij).text, SP2)
        /\ Par(ij).level = 2

(***************************************************************************)
(* C3                                                                      *)
(***************************************************************************)
\* C3 as stated: an appended body line is bold if and only if it starts with a
\* newline character.
C3_BoldIffNewline ==
  \A ij \in Appended : Par(ij).bold <=> startswith(Par(ij).text, NL)

\* C3 amended: an appended body line is bold if and only if it starts with a
\* newline character, except in Future Enhancement Opportunities, where it is
\* bold if and only if it does not start with two spaces (so the plain line
\* "Machine Learning Integration" is bold); in every builder a newline-led line
\* is bold and level 0 and a two-space line is not bold.
C3_BoldRule ==
  \A ij \in Appended :
     /\ Par(ij).bold <=>
           IF TitleOf(ij) = <<"Future Enhancement Opportunities">>
           THEN ~startswith(Par(ij).text, SP2)
           ELSE startswith(Par(ij).text, NL)
     /\ startswith(Par(ij).text, NL) => Par(ij).bold /\ Par(ij).level = 0
     /\ startswith(Par(ij).text, SP2) => ~Par(ij).bold

C3_Witness ==
  /\ pc = "save"
  /\ \E ij \in Appended :
        /\ TitleOf(ij) = <<"Future Enhancement Opportunities">>
        /\ Par(ij).text = <<"Machine Learning Integration">>
        /\ Par(ij).bold
  /\ \E ij \in Appended :
        /\ TitleOf(ij) = <<"Key Features">>
        /\ startswith(Par(ij).text, NL)
        /\ Par(ij).bold

(***************************************************************************)
(* C4                                                                      *)
(***************************************************************************)
\* A line that starts with neither a newline nor two spaces
PlainLine == <<"plain">>

\* The level the builder of the slide titled `title` assigns to a plain line
PlainLevel(title) ==
  IF title = <<"Trend Analysis Features">> THEN trend_paragraph(PlainLine).level
  ELSE IF title = <<"Advanced Analytics Dashboard">>
    THEN analytics_paragraph(PlainLine).level
  ELSE future_paragraph(PlainLine).level

SubBulletSlides ==
  {<<"Trend Analysis Features">>, <<"Advanced Analytics Dashboard">>,
   <<"Future Enhancement Opportunities">>}

\* The two-space lines of the slide titled t
SubBullets(t) ==
  {ij \in Appended : TitleOf(ij) = t /\ startswith(Par(ij).text, SP2)}

\* C4 as stated: in the three slides with two-space lines, each such line is
\* one level deeper than the level the slide's builder gives a plain line.
C4_SubBulletOneDeeper ==
  \A t \in SubBulletSlides :
     \A ij \in SubBullets(t) : Par(ij).level = PlainLevel(t) + 1

\* C4 amended: in Trend Analysis Features and Future Enhancement Opportunities
\* each two-space line is one level deeper than the level the builder gives a
\* plain line (2 against 1, and 1 against 0); in Advanced Analytics Dashboard a
\* two-space line is at level 1, the very level the builder gives a plain line,
\* and one deeper only than the slide's newline-led headers (level 0).
C4_SubBulletDepth ==
  /\ \A t \in {<<"Trend Analysis Features">>, <<"Future Enhancement Opportunities">>} :
        \A ij \in SubBullets(t) : Par(ij).level = PlainLevel(t) + 1
  /\ \A ij \in SubBullets(<<"Advanced Analytics Dashboard">>) :
        /\ Par(ij).level = 1
        /\ Par(ij).level = PlainLevel(<<"Advanced Analytics Dashboard">>)
        /\ Par(ij).level = analytics_paragraph(<<"\n", "header">>).level + 1

C4_Witness ==
  /\ pc = "save"
  /\ \A t \in SubBulletSlides : SubBullets(t) # {}
  /\ \E ij \in SubBullets(<<"Trend Analysis Features">>) : Par(ij).level = 2
  /\ \E ij \in SubBullets(<<"Future Enhancement Opportunities">>) : Par(ij).level = 1

(***************************************************************************)
(* C5                                                                      *)
(***************************************************************************)
\* C5 as stated: once add_metrics_monitored_slide has returned, the body of
\* "Quality Metrics Monitored" has exactly 12 paragraphs, the header and the 11
\* metric entries in list order, every one of them, the header included, at 16pt.
C5_AllSixteenPoint ==
  \A i \in BuiltSlides(<<"Quality Metrics Monitored">>) :
     /\ Len(slides[i].body) = 12
     /\ \A j \in 1..Len(slides[i].body) : slides[i].body[j].size = Pt(16)

\* C5 amended: once add_metrics_monitored_slide has returned, the body of
\* "Quality Metrics Monitored" has exactly 12 paragraphs: the seeded header,
\* bold and with no font size of its own (it inherits the layout's), followed
\* by one paragraph per metric entry, in list order, each at level 1 and 16pt.
C5_MetricsBody ==
  \A i \in BuiltSlides(<<"Quality Metrics Monitored">>) :
     LET body == slides[i].body
     IN  /\ Len(body) = 12
         /\ body[1].text = <<"Core Quality Parameters">>
         /\ body[1].bold
         /\ body[1].size = NoSize
         /\ \A j \in 2..12 :
               /\ SubSeq(body[j].text, 2, Len(body[j].text)) = metrics[j - 1]
               /\ body[j].level = 1
               /\ body[j].size = Pt(16)

C5_Witness ==
  /\ pc = "add_machine_parameters_slide"
  /\ ~InBuilder
  /\ BuiltSlides(<<"Quality Metrics Monitored">>) = {4}
  /\ Len(slides[4].body) = 12

(***************************************************************************)
(* C6                                                                      *)
(***************************************************************************)
\* C6: the page is 13.333 x 7.5 inches (12191695 x 6858000 EMU) before the first
\* slide is appended and in every state from there through the save, and the
\* saved file carries that size.
C6_PageSize ==
  /\ (pc \in {calls[i] : i \in 1..Len(calls)} \cup {"save", "print", "return", "done", "error"})
        => slide_width = 12191695 /\ slide_height = 6858000
  /\ Len(slides) >= 1 => slide_width = 12191695 /\ slide_height = 6858000
  /\ Saved => fs[filename].slide_width = 12191695 /\ fs[filename].slide_height = 6858000

C6_Witness ==
  /\ Saved
  /\ Len(slides) = 12
  /\ fs[filename].slide_width = 12191695

(***************************************************************************)
(* C7                                                                      *)
(***************************************************************************)
\* C7: every run starts from an empty document, and whatever the output path
\* held before, every successful run writes the same content model; after a
\* successful run the output path holds exactly that 12-slide content, the
\* returned path is the fixed file name, and no other path is written.
C7_Idempotent ==
  /\ pc = "slide_width" => slides = <<>>
  /\ \A i, j \in 1..Len(history) : history[i] = history[j]
  /\ Saved =>
        /\ history # <<>>
        /\ fs[filename] = history[1]
        /\ Len(fs[filename].slides) = 12
  /\ pc = "done" => returned = <<"Tissue_QA_Dashboard_Presentation.pptx">>
  /\ \A p \in Paths \ {filename} : fs[p] = NoFile

C7_Witness ==
  /\ run = 2
  /\ pc = "done"
  /\ Len(history) = 2
  /\ fs[filename] = history[2]

(***************************************************************************)
(* C8                                                                      *)
(***************************************************************************)
\* C8: when the save fails the run ends in the error state with nothing
\* printed, nothing returned and the save attempted once, and no statement of
\* create_presentation can run again; the confirmation line is printed, and
\* the path returned, only after a save that wrote the document.
C8_SaveFailurePropagates ==
  /\ pc = "error" =>
        /\ stdout = <<>>
        /\ returned = <<>>
        /\ saves = 1
        /\ ~ENABLED (save \/ print_saved \/ return_filename)
  /\ stdout # <<>> =>
        /\ saves = 1
        /\ fs[filename] = Package
        /\ stdout = << <<"Presentation saved as ", filename>> >>
  /\ returned # <<>> => stdout # <<>> /\ returned = <<filename>>

C8_Witness ==
  /\ pc = "error"
  /\ saves = 1
  /\ fs[filename] = Truncated

(***************************************************************************)
(* C9                                                                      *)
(***************************************************************************)
\* What holds in every state of a run
C9_Order ==
  /\ created <= 1
  /\ pc # "Presentation" => created = 1
  /\ saves <= 1
  /\ (pc \in {calls[i] : i \in 1..Len(calls)} \cup {"Presentation", "slide_width",
              "slide_height", "save"}) => saves = 0
  /\ saves = 1 => Len(slides) = 12 /\ ~InBuilder
  /\ stdout # <<>> => saves = 1 /\ Saved

\* What holds of every step of a run
C9_Step ==
  /\ saves' # saves /\ run' = run =>
        /\ Len(slides) = 12
        /\ titles(slides) = TitleSeq
        /\ ~InBuilder
  /\ saves >= 1 /\ run' = run => slides' = slides
  /\ stdout' # stdout /\ run' = run => saves = 1

\* C9: in every run the document is created exactly once and saved at most
\* once, the save happens only after the twelve builders have returned (twelve
\* slides at that moment), no slide is appended or modified after the save,
\* and the confirmation is printed only after the save.
C9_CreatedOnceSavedOnce == [](C9_Order) /\ [][C9_Step]_vars

C9_Witness ==
  /\ pc = "return"
  /\ saves = 1
  /\ created = 1
  /\ stdout # <<>>

(***************************************************************************)
(* C10                                                                     *)
(***************************************************************************)
\* The slide count at each point of the call sequence
C10_Count ==
  \A n \in 1..Len(calls) :
     pc = calls[n] => Len(slides) = (IF InBuilder THEN n ELSE n - 1)

\* What every step of a run does to the slides
C10_Step ==
  run' = run =>
     /\ Len(slides') >= Len(slides)
     /\ Len(slides') <= Len(slides) + 1
     /\ Len(slides') = Len(slides) + 1 <=> ~InBuilder /\ ip' # "enter"
     /\ \A i \in 1..Len(slides) : Built(i) => slides'[i] = slides[i]

\* C10: each builder, called on the shared document, appends exactly one slide
\* at the end and leaves every slide appended before it unchanged; no slide
\* changes after the builder that created it has returned.
C10_BuildersAppendOnly == [](C10_Count) /\ [][C10_Step]_vars

C10_Witness ==
  /\ pc = "add_conclusion_slide"
  /\ ip = "points"
  /\ k = 5
  /\ Len(slides) = 12
  /\ Len(slides[12].body) = 5
  /\ slides[2].title = <<"Dashboard Overview">>
====
